---- MODULE Spec2Model ----
(***************************************************************************)
(* woptipng: the per-file optimisation loop (Image::optimize), its         *)
(* verification step (Image::verify_image), the four engine adapters and   *)
(* the parallel driver in main, over an abstract file system.              *)
(*                                                                         *)
(* A file is a record [size, pixels]; two files with the same record are   *)
(* the same bytes.  A path is [dir, stem] with the stem kept as the list   *)
(* of its parts, so that "<stem>_tmp" is the stem with one part appended.  *)
(***************************************************************************)
EXTENDS Integers, Sequences, FiniteSets, TLC

\* ---------------------------------------------------------------- bounds
\* Largest file size (in abstract bytes) a file or an engine output may have.
MaxSize == 2
\* Cap on the iteration counter of one task.
MaxIter == 6
\* Sizes of the worker pool (rayon's global pool: one thread per core).
PoolSizes == {1, 2}

\* ------------------------------------------------------------ file system
Pixels == {"p", "q"}

\* No file at that path.
NoFile == [size |-> -1, pixels |-> "absent"]

\* A file the decoder (image::open) rejects: the empty file.
EmptyFile == [size |-> 0, pixels |-> "undecodable"]

Images == [size : 1..MaxSize, pixels : Pixels]

Contents == Images \cup {EmptyFile}

Path(d, s) == [dir |-> d, stem |-> s]

\* let tmp_path = { t.set_file_name(format!("{}_tmp.png", stem)) }
tmp_path(p) == [p EXCEPT !.stem = Append(@, "_tmp")]

\* The lists of .png files the directory walk may hand to the scheduler.
FileLists ==
    { << Path("d", <<"X">>) >>,
      << Path("d", <<"X">>), Path("e", <<"X">>) >>,
      << Path("d", <<"X", "_tmp">>), Path("d", <<"X">>) >> }

Range(s) == { s[k] : k \in DOMAIN s }

PathsOf(files) == Range(files) \cup { tmp_path(p) : p \in Range(files) }

Exists(f, p) == f[p] # NoFile

\* std::fs::copy(from, to) of an existing file
fs_copy(f, from, to) == [f EXCEPT ![to] = f[from]]

\* image::open(p).unwrap() succeeds
CanOpen(f, p) == f[p].pixels \in Pixels

\* std::fs::metadata(p).unwrap().len()
metadata_len(f, p) == f[p].size

\* fn images_are_identical: pixels_1.eq(pixels_2)
images_are_identical(f, image1, image2) == f[image1].pixels = f[image2].pixels

\* ---------------------------------------------------------------- engines
\* The external engines are black boxes.  Under engine = "any" an engine may
\* leave any file in the working copy; otherwise it is one of these fixed,
\* deterministic behaviours.
Profiles == {"noop", "shrink", "grow", "corrupt_shrink", "corrupt_grow"}

OtherPixels(px) == IF px = "p" THEN "q" ELSE "p"

Smaller(n) == IF n > 1 THEN n - 1 ELSE n

Larger(n) == IF n < MaxSize THEN n + 1 ELSE n

Profile(prof, in) ==
    IF in.pixels \notin Pixels THEN in
    ELSE CASE prof = "noop"           -> in
           [] prof = "shrink"         -> [size |-> Smaller(in.size), pixels |-> in.pixels]
           [] prof = "grow"           -> [size |-> Larger(in.size), pixels |-> in.pixels]
           [] prof = "corrupt_shrink" -> [size |-> Smaller(in.size), pixels |-> OtherPixels(in.pixels)]
           [] prof = "corrupt_grow"   -> [size |-> Larger(in.size), pixels |-> OtherPixels(in.pixels)]

\* const COMPRESSION_LEVELS: &[u8] = &[1, 2, 3, 4]
COMPRESSION_LEVELS == <<1, 2, 3, 4>>

RECURSIVE Repeat(_, _, _)
Repeat(prof, in, n) == IF n = 0 THEN in ELSE Repeat(prof, Profile(prof, in), n - 1)

\* What one invocation of an engine may leave in its output file.
EngineOutputs(eng, in) ==
    IF in = NoFile THEN {NoFile}
    ELSE IF eng = "any" THEN Contents \cup {in}
    ELSE {Profile(eng, in)}

\* advpng: one invocation per compression level, each in place.
AdvpngOutputs(eng, in) ==
    IF in = NoFile THEN {NoFile}
    ELSE IF eng = "any" THEN Contents \cup {in}
    ELSE {Repeat(eng, in, Len(COMPRESSION_LEVELS))}

\* ------------------------------------------------------------------ tasks
\* let arr = [EXEC_OPTIPNG, EXEC_IMAGEMAGIC, EXEC_ADVPNG, EXEC_OXIPNG]
arr == <<"optipng", "convert", "advpng", "oxipng">>

\* The order of the engine and verification steps of one iteration.
StepOrder == <<"imagemagick", "verify", "optipng", "verify",
               "advpng", "verify", "oxipng", "verify">>

\* steps: the engine invocations and verifications of the current iteration, in
\* order; failed: the engine invocation just made returned a failure status (the
\* bool of the adapter, until the verification that follows has run).
IdleTask ==
    [pc |-> "idle", iteration |-> 0, original_size |-> 0,
     size_before |-> 0, size_after |-> 0, outcome |-> "none",
     steps |-> << >>, failed |-> FALSE]

Panicked(t) == [t EXCEPT !.pc = "panicked"]

\* verify_image with the size test the other way round (working copy smaller
\* than the file).
verify_image_swapped(f, p, tp) ==
    IF ~CanOpen(f, p) \/ ~CanOpen(f, tp)
    THEN [fs |-> f, outcome |-> "Panic"]
    ELSE LET pixel_identical == images_are_identical(f, p, tp)
             image_got_smaller == metadata_len(f, tp) < metadata_len(f, p)
         IN  CASE pixel_identical /\ image_got_smaller ->
                    [fs |-> fs_copy(f, p, tp), outcome |-> "Improved"]
               [] pixel_identical /\ ~image_got_smaller ->
                    [fs |-> f, outcome |-> "NoGain"]
               [] ~pixel_identical /\ image_got_smaller ->
                    [fs |-> fs_copy(f, tp, p), outcome |-> "Corrupted"]
               [] ~pixel_identical /\ ~image_got_smaller ->
                    [fs |-> f, outcome |-> "Invalid"]

\* fn verify_image(&mut self, backup_image): self.path is p, backup_image is tp.
verify_image(f, p, tp) ==
    IF ~CanOpen(f, p) \/ ~CanOpen(f, tp)
    THEN [fs |-> f, outcome |-> "Panic"]
    ELSE LET pixel_identical == images_are_identical(f, p, tp)
             size_new == metadata_len(f, p)
             size_old == metadata_len(f, tp)
             image_got_smaller == size_new < size_old
         IN  CASE pixel_identical /\ image_got_smaller ->
                    [fs |-> fs_copy(f, p, tp), outcome |-> "Improved"]
               [] pixel_identical /\ ~image_got_smaller ->
                    [fs |-> f, outcome |-> "NoGain"]
               [] ~pixel_identical /\ image_got_smaller ->
                    [fs |-> fs_copy(f, tp, p), outcome |-> "Corrupted"]
               [] ~pixel_identical /\ ~image_got_smaller ->
                    [fs |-> f, outcome |-> "Invalid"]

\* The loop test with >= for >: an iteration that changed nothing is repeated.
LoopCondNonStrict(t) == t.size_before >= t.size_after \/ t.iteration = 0

\* while size_before > size_after || iteration == 0
LoopCond(t) == t.size_before > t.size_after \/ t.iteration = 0

\* size_delta = size_after as i64 - size_before as i64
size_delta(t) == t.size_after - t.size_before

\* optimize, lines 214-229: entry.
optimize_entry(f, t, p) ==
    IF ~Exists(f, p) THEN [fs |-> f, task |-> Panicked(t)]
    ELSE [fs |-> f,
          task |-> [t EXCEPT !.pc = "loop", !.original_size = metadata_len(f, p),
                             !.iteration = 0, !.size_before = metadata_len(f, p),
                             !.size_after = 0]]

\* A loop whose body is skipped while the test holds: nothing the test reads
\* ever changes.
loop_head_spin(f, t, p) ==
    IF LoopCond(t) THEN [fs |-> f, task |-> t]
    ELSE [fs |-> f, task |-> [t EXCEPT !.pc = "cleanup"]]

\* optimize, lines 230-232: the loop test and the head of the body.
loop_head(f, t, p) ==
    IF LoopCond(t)
    THEN IF ~Exists(f, p)
         THEN [fs |-> f, task |-> [t EXCEPT !.pc = "panicked", !.iteration = @ + 1]]
         ELSE [fs |-> f,
               task |-> [t EXCEPT !.pc = "copy1", !.iteration = @ + 1,
                                  !.size_before = metadata_len(f, p),
                                  !.steps = << >>]]
    ELSE [fs |-> f, task |-> [t EXCEPT !.pc = "cleanup"]]

\* The first statement of run_imagemagick / run_optipng / run_oxipng without
\* the copy: the engine then works on the working copy as the last step left it.
refresh_skipped(f, t, p, next) == [fs |-> f, task |-> [t EXCEPT !.pc = next]]

\* std::fs::copy(&self.path, tmp_path).expect(..): the first statement of
\* run_imagemagick (138), run_optipng (153) and run_oxipng (179).
refresh(f, t, p, next) ==
    IF ~Exists(f, p) THEN [fs |-> f, task |-> Panicked(t)]
    ELSE [fs |-> fs_copy(f, p, tmp_path(p)), task |-> [t EXCEPT !.pc = next]]

\* The engine has run on working copy tp and left `out` there.
Engine(f, tp, out) == [f EXCEPT ![tp] = out]

\* An engine's status decides whether the task goes on: a failure aborts it.
after_engine_strict(t, name, next, ok) ==
    IF ok THEN [t EXCEPT !.pc = next, !.steps = Append(@, name)]
    ELSE Panicked(t)

\* optimize, lines 234, 237, 240, 243: the adapter's bool is dropped and the
\* verification follows.
after_engine(t, name, next, ok) ==
    [t EXCEPT !.pc = next, !.steps = Append(@, name), !.failed = ~ok]

\* run_imagemagick after its copy: convert -strip -define png:color-type=6
\* <path> <tmp_path>; ok is cmd.status().unwrap().success().
run_imagemagick(f, t, p, out, ok) ==
    [fs |-> Engine(f, tmp_path(p), out),
     task |-> after_engine(t, "imagemagick", "verify1", ok)]

\* run_optipng followed at once by run_advpng, without the verification between.
run_optipng_unverified(f, t, p, out, ok) ==
    [fs |-> Engine(f, tmp_path(p), out),
     task |-> after_engine(t, "optipng", "advpng", ok)]

\* run_optipng after its copy: optipng -q -o5 -nb -nc -np <tmp_path>.
run_optipng(f, t, p, out, ok) ==
    [fs |-> Engine(f, tmp_path(p), out),
     task |-> after_engine(t, "optipng", "verify2", ok)]

\* run_advpng: no copy; advpng -z -<lvl> <tmp_path> for each level; ok is the
\* conjunction of the four statuses.
run_advpng(f, t, p, out, ok) ==
    [fs |-> Engine(f, tmp_path(p), out),
     task |-> after_engine(t, "advpng", "verify3", ok)]

\* run_oxipng after its copy: oxipng --nc --np -o6 --quiet <tmp_path>.
run_oxipng(f, t, p, out, ok) ==
    [fs |-> Engine(f, tmp_path(p), out),
     task |-> after_engine(t, "oxipng", "verify4", ok)]

VerifyNext == [verify1 |-> "copy2", verify2 |-> "advpng",
               verify3 |-> "copy4", verify4 |-> "iter_end"]

\* self.verify_image(&tmp_path) at lines 235, 238, 241, 244.
verify_step(f, t, p) ==
    LET v == verify_image(f, p, tmp_path(p))
    IN  [fs |-> v.fs,
         task |-> [t EXCEPT !.pc = IF v.outcome \in {"Panic", "Invalid"}
                                   THEN "panicked" ELSE VerifyNext[t.pc],
                            !.outcome = v.outcome,
                            !.steps = Append(@, "verify"),
                            !.failed = FALSE]]

\* optimize, lines 246-248: the end of the loop body.
iter_end(f, t, p) ==
    IF ~Exists(f, p) THEN [fs |-> f, task |-> Panicked(t)]
    ELSE [fs |-> f, task |-> [t EXCEPT !.pc = "loop", !.size_after = metadata_len(f, p)]]

\* optimize, lines 250-268: remove the working copy if it exists, print the report.
cleanup(f, t, p) ==
    [fs |-> [f EXCEPT ![tmp_path(p)] = NoFile], task |-> [t EXCEPT !.pc = "done"]]

\* What convert may leave in the working copy: it reads the canonical file.
ImagemagickOutputs(eng, f, p) ==
    IF ~Exists(f, p) THEN {f[tmp_path(p)]} ELSE EngineOutputs(eng, f[p])

\* The statuses an engine invocation may return.
Statuses(eng) == IF eng = "any" THEN BOOLEAN ELSE {TRUE}

\* total_file_size_after - total_file_size_before on u64, as carry * 2^64 + offset:
\* the wrapped difference when after < before.
u64_sub(after, before) ==
    [carry |-> IF after < before THEN 1 ELSE 0, offset |-> after - before]

\* ------------------------------------------------------------------ state
VARIABLES
    all_png_files,          \* main: the discovered files, one task each
    fs,                     \* the file system: path -> file
    fs0,                    \* the file system before the run (never changes)
    engine,                 \* "any", or the engines' deterministic behaviour
    pool,                   \* number of worker threads
    paths_ok,               \* every input path exists
    probe,                  \* engine -> its --help probe returned success
    mainpc,                 \* position of main
    task,                   \* task index -> task record
    total_file_size_before, \* main
    total_file_size_after   \* main

vars == << all_png_files, fs, fs0, engine, pool, paths_ok, probe, mainpc, task,
           total_file_size_before, total_file_size_after >>

Tasks == DOMAIN all_png_files

path(i) == all_png_files[i]

RunningPcs == {"loop", "copy1", "imagemagick", "verify1", "copy2", "optipng", "verify2",
               "advpng", "verify3", "copy4", "oxipng", "verify4", "iter_end", "cleanup"}

CopyNext == [copy1 |-> "imagemagick", copy2 |-> "optipng", copy4 |-> "oxipng"]

VerifyPcs == {"verify1", "verify2", "verify3", "verify4"}

EndedPcs == {"done", "panicked", "skipped"}

Running == { i \in Tasks : task[i].pc \in RunningPcs }

RECURSIVE SumSizes(_, _)
\* .flat_map(std::fs::metadata).map(|m| m.len()).sum::<u64>(): missing files are skipped.
SumSizes(f, files) ==
    IF files = << >> THEN 0
    ELSE (IF Exists(f, Head(files)) THEN metadata_len(f, Head(files)) ELSE 0)
         + SumSizes(f, Tail(files))

\* The probe of the first engine alone.
tools_ok_first == probe[arr[1]]

\* assert_optimizers_are_available: arr.iter().find(..) finds no engine whose
\* probe is not Some(true).
tools_ok == \A k \in DOMAIN arr : probe[arr[k]]

\* The process's exit status once main has ended.
ExitStatus ==
    CASE mainpc = "exit1" -> 1
      [] mainpc = "exit2" -> 2
      [] mainpc = "done"  -> 0
      [] mainpc \in {"panicked", "overflow"} -> 101
      [] OTHER -> -1

\* The two pixel values are interchangeable: the first file, if it decodes,
\* starts with pixels "p".
InitFs(files, f) ==
    /\ \A p \in Range(files) : f[p] \in Contents
    /\ f[files[1]].pixels # "q"
    /\ \A p \in PathsOf(files) \ Range(files) : f[p] = NoFile

InitCommon ==
    /\ all_png_files \in FileLists
    /\ fs \in [PathsOf(all_png_files) -> Contents \cup {NoFile}]
    /\ InitFs(all_png_files, fs)
    /\ fs0 = fs
    /\ pool \in PoolSizes
    /\ paths_ok \in BOOLEAN
    /\ probe \in [Range(arr) -> BOOLEAN]
    /\ mainpc = "start"
    /\ task = [i \in DOMAIN all_png_files |-> IdleTask]
    /\ total_file_size_before = 0
    /\ total_file_size_after = 0

\* Arbitrary engines are explored on a single file, the fixed engine behaviours
\* on every list and with every pool size.
Init == InitCommon /\ ((engine = "any" /\ Len(all_png_files) = 1) \/ engine \in Profiles)

\* ------------------------------------------------------------------- main
\* validate_input_paths: exit(1) when an input path does not exist.
ValidateInputPaths ==
    /\ mainpc = "start"
    /\ mainpc' = IF paths_ok THEN "validated" ELSE "exit1"
    /\ UNCHANGED << all_png_files, fs, fs0, engine, pool, paths_ok, probe, task,
                    total_file_size_before, total_file_size_after >>

\* main, lines 45-59: total before, then assert_optimizers_are_available.
AssertOptimizersAreAvailable ==
    /\ mainpc = "validated"
    /\ total_file_size_before' = SumSizes(fs, all_png_files)
    /\ mainpc' = IF tools_ok THEN "optimizing" ELSE "exit2"
    /\ UNCHANGED << all_png_files, fs, fs0, engine, pool, paths_ok, probe, task,
                    total_file_size_after >>

Apply(i, r) ==
    /\ fs' = r.fs
    /\ task' = [task EXCEPT ![i] = r.task]
    /\ UNCHANGED << all_png_files, fs0, engine, pool, paths_ok, probe, mainpc,
                    total_file_size_before, total_file_size_after >>

\* A worker takes the next file: .par_iter().map(Image::new).for_each(|img| img.optimize())
Start(i) ==
    /\ mainpc = "optimizing"
    /\ task[i].pc = "idle"
    /\ Cardinality(Running) < pool
    /\ Apply(i, optimize_entry(fs, task[i], path(i)))

LoopTest(i) ==
    /\ task[i].pc = "loop"
    /\ LoopCond(task[i]) => task[i].iteration < MaxIter
    /\ Apply(i, loop_head(fs, task[i], path(i)))

Refresh(i) ==
    /\ task[i].pc \in DOMAIN CopyNext
    /\ Apply(i, refresh(fs, task[i], path(i), CopyNext[task[i].pc]))

RunImagemagick(i) ==
    /\ task[i].pc = "imagemagick"
    /\ \E out \in ImagemagickOutputs(engine, fs, path(i)), ok \in Statuses(engine) :
          Apply(i, run_imagemagick(fs, task[i], path(i), out, ok))

RunOptipng(i) ==
    /\ task[i].pc = "optipng"
    /\ \E out \in EngineOutputs(engine, fs[tmp_path(path(i))]), ok \in Statuses(engine) :
          Apply(i, run_optipng(fs, task[i], path(i), out, ok))

RunOxipng(i) ==
    /\ task[i].pc = "oxipng"
    /\ \E out \in EngineOutputs(engine, fs[tmp_path(path(i))]), ok \in Statuses(engine) :
          Apply(i, run_oxipng(fs, task[i], path(i), out, ok))

RunAdvpng(i) ==
    /\ task[i].pc = "advpng"
    /\ \E out \in AdvpngOutputs(engine, fs[tmp_path(path(i))]), ok \in Statuses(engine) :
          Apply(i, run_advpng(fs, task[i], path(i), out, ok))

VerifyImage(i) ==
    /\ task[i].pc \in VerifyPcs
    /\ Apply(i, verify_step(fs, task[i], path(i)))

IterEnd(i) ==
    /\ task[i].pc = "iter_end"
    /\ Apply(i, iter_end(fs, task[i], path(i)))

Cleanup(i) ==
    /\ task[i].pc = "cleanup"
    /\ Apply(i, cleanup(fs, task[i], path(i)))

\* A panic unwinds the worker's sequential run of files: the files after the
\* panicking one in the same run are never optimised.
Skip(i) ==
    /\ mainpc = "optimizing"
    /\ task[i].pc = "idle"
    /\ \E j \in Tasks : task[j].pc = "panicked"
    /\ task' = [task EXCEPT ![i].pc = "skipped"]
    /\ UNCHANGED << all_png_files, fs, fs0, engine, pool, paths_ok, probe, mainpc,
                    total_file_size_before, total_file_size_after >>

\* for_each returns when every worker is finished; a task's panic is re-raised in main.
Join ==
    /\ mainpc = "optimizing"
    /\ \A i \in Tasks : task[i].pc \in EndedPcs
    /\ mainpc' = IF \E i \in Tasks : task[i].pc = "panicked" THEN "panicked" ELSE "joined"
    /\ UNCHANGED << all_png_files, fs, fs0, engine, pool, paths_ok, probe, task,
                    total_file_size_before, total_file_size_after >>

\* What main does at line 81 with the two totals: an unsigned subtraction that
\* underflows panics in a build with overflow checks and wraps in one without.
SummaryEnds(after, before) ==
    IF u64_sub(after, before).carry = 1 THEN {"overflow", "done"} ELSE {"done"}

\* main, lines 67-81: total after and the summary.
Summary ==
    /\ mainpc = "joined"
    /\ total_file_size_after' = SumSizes(fs, all_png_files)
    /\ mainpc' \in SummaryEnds(SumSizes(fs, all_png_files), total_file_size_before)
    /\ UNCHANGED << all_png_files, fs, fs0, engine, pool, paths_ok, probe, task,
                    total_file_size_before >>

\* One step of task i.
TaskNext(i) ==
    \/ LoopTest(i)
    \/ Refresh(i)
    \/ RunImagemagick(i)
    \/ RunOptipng(i)
    \/ RunAdvpng(i)
    \/ RunOxipng(i)
    \/ VerifyImage(i)
    \/ IterEnd(i)
    \/ Cleanup(i)

Next ==
    \/ ValidateInputPaths
    \/ AssertOptimizersAreAvailable
    \/ \E i \in Tasks : Start(i)
    \/ \E i \in Tasks : LoopTest(i)
    \/ \E i \in Tasks : Refresh(i)
    \/ \E i \in Tasks : RunImagemagick(i)
    \/ \E i \in Tasks : RunOptipng(i)
    \/ \E i \in Tasks : RunAdvpng(i)
    \/ \E i \in Tasks : RunOxipng(i)
    \/ \E i \in Tasks : VerifyImage(i)
    \/ \E i \in Tasks : IterEnd(i)
    \/ \E i \in Tasks : Cleanup(i)
    \/ \E i \in Tasks : Skip(i)
    \/ Join
    \/ Summary

Spec == Init /\ [][Next]_vars

\* Every engine invocation returns and the workers keep running: as long as a
\* started task can take a step, some started task does.
SpecFair == Spec /\ WF_vars(\E i \in Tasks : TaskNext(i))

\* ------------------------------------------------- serial reference run
\* One step of a task under a fixed engine behaviour, as a function.
TaskStep(f, t, p, eng) ==
    CASE t.pc = "idle"     -> optimize_entry(f, t, p)
      [] t.pc = "loop"     -> loop_head(f, t, p)
      [] t.pc \in DOMAIN CopyNext -> refresh(f, t, p, CopyNext[t.pc])
      [] t.pc = "imagemagick" ->
            run_imagemagick(f, t, p, CHOOSE o \in ImagemagickOutputs(eng, f, p) : TRUE, TRUE)
      [] t.pc = "optipng"  ->
            run_optipng(f, t, p, CHOOSE o \in EngineOutputs(eng, f[tmp_path(p)]) : TRUE, TRUE)
      [] t.pc = "oxipng"   ->
            run_oxipng(f, t, p, CHOOSE o \in EngineOutputs(eng, f[tmp_path(p)]) : TRUE, TRUE)
      [] t.pc = "advpng"   ->
            run_advpng(f, t, p, CHOOSE o \in AdvpngOutputs(eng, f[tmp_path(p)]) : TRUE, TRUE)
      [] t.pc \in VerifyPcs -> verify_step(f, t, p)
      [] t.pc = "iter_end" -> iter_end(f, t, p)
      [] t.pc = "cleanup"  -> cleanup(f, t, p)

Stopped(t) == t.pc \in EndedPcs \/ (t.pc = "loop" /\ LoopCond(t) /\ t.iteration >= MaxIter)

RECURSIVE RunTask(_, _, _, _)
\* img.optimize() run from start to end with nothing else running.
RunTask(f, t, p, eng) ==
    IF Stopped(t) THEN [fs |-> f, task |-> t]
    ELSE LET r == TaskStep(f, t, p, eng) IN RunTask(r.fs, r.task, p, eng)

RECURSIVE SerialRun(_, _, _, _)
\* The files optimised one after the other, in list order, by a single worker.
SerialRun(f, files, k, eng) ==
    IF k > Len(files) THEN [fs |-> f, task |-> << >>]
    ELSE LET r    == RunTask(f, IdleTask, files[k], eng)
             rest == SerialRun(r.fs, files, k + 1, eng)
         IN  [fs |-> rest.fs, task |-> << r.task >> \o rest.task]

\* ----------------------------------------------------------------- claims
canonical(i) == fs[path(i)]

working(i) == fs[tmp_path(path(i))]

\* Task i takes its verification step in this transition.
Verifying(i) == task[i].pc \in VerifyPcs /\ task'[i].pc # task[i].pc

\* Both files decode when task i is about to verify.
Decodes(i) == CanOpen(fs, path(i)) /\ CanOpen(fs, tmp_path(path(i)))

\* Positions of a task after at least one verification step of the current run.
AfterVerifyPcs == {"copy2", "optipng", "advpng", "copy4", "oxipng", "iter_end",
                   "cleanup", "done"}

\* C1 (as claimed): after every verification step and at task end the canonical
\* file has the pixels of the original input.
Losslessness ==
    \A i \in Tasks :
        (task[i].pc \in AfterVerifyPcs /\ Exists(fs, path(i)))
            => canonical(i).pixels = fs0[path(i)].pixels

\* C2 (as claimed): a task that completes leaves a canonical file no larger than
\* the original size it recorded on entry.
MonotonicSize ==
    \A i \in Tasks :
        (task[i].pc = "done" /\ Exists(fs, path(i)))
            => canonical(i).size <= task[i].original_size

\* C3 (as claimed): a working copy with other pixels and a smaller size than the
\* canonical file makes the verification step flag Corrupted, keep the canonical
\* file as it was and not abort the task.
RollbackCorrectness ==
    [][\A i \in Tasks :
          (Verifying(i) /\ Decodes(i)
             /\ working(i).pixels # canonical(i).pixels
             /\ working(i).size < canonical(i).size)
            => /\ task'[i].outcome = "Corrupted"
               /\ task'[i].pc # "panicked"
               /\ fs'[path(i)] = fs[path(i)]]_vars

\* C4 (as claimed): a working copy that is pixel-identical to the canonical file
\* and strictly smaller is committed: it becomes the canonical file.
ImprovementKept ==
    [][\A i \in Tasks :
          (Verifying(i) /\ Decodes(i)
             /\ working(i).pixels = canonical(i).pixels
             /\ working(i).size < canonical(i).size)
            => /\ task'[i].outcome = "Improved"
               /\ fs'[path(i)] = fs[tmp_path(path(i))]]_vars

\* C5 (as claimed): a working copy with other pixels that is not smaller than the
\* canonical file aborts the task, and the canonical file is not written.
InvalidAborts ==
    [][\A i \in Tasks :
          (Verifying(i) /\ Decodes(i)
             /\ working(i).pixels # canonical(i).pixels
             /\ working(i).size >= canonical(i).size)
            => /\ task'[i].pc = "panicked"
               /\ fs'[path(i)] = fs[path(i)]]_vars

\* An abort of task i by the Invalid branch of verify_image (the panic!() arm).
AbortedByInvalid(i) == task[i].pc = "panicked" /\ task[i].outcome = "Invalid"

\* C6 (as claimed): when the only aborts are Invalid outcomes, no other task is
\* kept from running (none is skipped) and main does not end by a propagated
\* panic, so that it goes on to the summary.
ErrorIsolation ==
    (\A i \in Tasks : task[i].pc = "panicked" => AbortedByInvalid(i))
        => /\ \A i \in Tasks : task[i].pc # "skipped"
           /\ mainpc # "panicked"

\* C7: the loop body is entered at the first test whatever the sizes; at a later
\* test it is entered exactly when the size read at the end of the last iteration
\* is strictly smaller than the size read at its start; otherwise the loop is
\* left for good.  The two sizes are the canonical file's at those two points.
ConvergenceLoopRule ==
    [][\A i \in Tasks :
          /\ (task[i].pc = "loop" /\ task'[i].pc # "loop")
                => LET again == task'[i].iteration = task[i].iteration + 1
                   IN  /\ task[i].iteration = 0 => again
                       /\ task[i].iteration > 0
                             => (again <=> task[i].size_after < task[i].size_before)
                       /\ again => /\ task'[i].pc \in {"copy1", "panicked"}
                                   /\ task'[i].pc = "copy1"
                                         => task'[i].size_before = canonical(i).size
                       /\ ~again => /\ task'[i].pc = "cleanup"
                                    /\ task'[i].iteration = task[i].iteration
          /\ (task[i].pc = "iter_end" /\ task'[i].pc = "loop")
                => task'[i].size_after = canonical(i).size
          /\ (task[i].pc \in {"cleanup", "done"}) => task'[i].iteration = task[i].iteration
      ]_vars

\* C7 witness: a task whose first iteration reduced the size ran a second one,
\* which did not, and the task converged.
ConvergedAfterSecondIteration ==
    \E i \in Tasks :
        /\ task[i].pc = "done"
        /\ task[i].iteration = 2
        /\ task[i].size_after >= task[i].size_before

\* C8 (as claimed): once a task has ended, by convergence or by an abort of the
\* Invalid branch, its working copy does not exist.
WorkingCopyCleanup ==
    \A i \in Tasks :
        (task[i].pc = "done" \/ AbortedByInvalid(i)) => ~Exists(fs, tmp_path(path(i)))

\* C9 (as claimed): the canonical file of a task changes only in a step of that
\* task.
ExclusiveOwnership ==
    [][\A j \in Tasks : fs'[path(j)] # fs[path(j)] => task'[j] # task[j]]_vars

\* C10 (as claimed): with a fixed engine behaviour, a run that completes leaves
\* each file and each task's record (sizes read, iterations, last verification
\* decision) as the run by a single worker in list order does.
IndependenceUnderConcurrency ==
    (mainpc = "done" /\ engine # "any")
        => LET ref == SerialRun(fs0, all_png_files, 1, engine)
           IN  (\A i \in Tasks : ref.task[i].pc = "done")
                  => \A i \in Tasks : /\ fs[path(i)] = ref.fs[path(i)]
                                      /\ task[i] = ref.task[i]

NoneStarted == \A i \in Tasks : task[i].pc = "idle"

AllProbesOk == \A e \in {"optipng", "convert", "advpng", "oxipng"} : probe[e]

\* C11: no task is started, hence no engine is invoked against an input, unless
\* every input path exists and each of the four engines answered its probe with
\* success; a missing input path ends the process with status 1 and an engine
\* that fails its probe ends it with status 2, both while every task is idle.
StartupGate ==
    /\ ~NoneStarted => paths_ok /\ AllProbesOk
    /\ (~paths_ok /\ mainpc # "start") => ExitStatus = 1
    /\ (paths_ok /\ ~AllProbesOk /\ mainpc \notin {"start", "validated"}) => ExitStatus = 2
    /\ ExitStatus = 1 => ~paths_ok /\ NoneStarted
    /\ ExitStatus = 2 => paths_ok /\ ~AllProbesOk /\ NoneStarted

\* The last engine probed is the only one that fails, and the process has
\* ended with status 2.
GateStoppedOnLastProbe ==
    /\ ExitStatus = 2
    /\ ~probe["oxipng"]
    /\ probe["optipng"] /\ probe["convert"] /\ probe["advpng"]

\* No task's working copy is another task's input file.
NoSharedPaths == \A i, j \in Tasks : tmp_path(path(j)) # path(i)

\* Engines that always leave a working copy with the pixels of their input and
\* a size not below it.
IdempotentEngines == engine \in {"noop", "grow"}

\* C12 (as claimed): a task on a decodable input whose every engine step yields
\* a pixel-identical working copy not smaller than the canonical file has every
\* verification step classified NoGain, does not abort, and ends after exactly
\* one iteration of four engine steps and four verifications with the canonical
\* file byte-identical to the input and a reported delta of 0.
Idempotence ==
    \A i \in Tasks :
        (IdempotentEngines /\ NoSharedPaths /\ fs0[path(i)] \in Images)
            => /\ task[i].outcome \in {"none", "NoGain"}
               /\ task[i].pc # "panicked"
               /\ task[i].pc = "done"
                    => /\ task[i].iteration = 1
                       /\ task[i].steps = StepOrder
                       /\ canonical(i) = fs0[path(i)]
                       /\ size_delta(task[i]) = 0

\* C13 (as claimed): on the report line of a finished task the printed absolute
\* delta is the printed final size minus the printed original size, whatever the
\* number of iterations, and so negative when the final size is below the
\* original one.  (The line prints original_size, size_after and size_delta.)
PerFileReport ==
    \A i \in Tasks :
        task[i].pc = "done"
            => /\ size_delta(task[i]) = task[i].size_after - task[i].original_size
               /\ task[i].size_after < task[i].original_size => size_delta(task[i]) < 0

\* C14 (as claimed): the total after is taken when every task has ended, and
\* the net delta main prints is the signed difference of the two totals also
\* when the total after is below the total before: the subtraction neither
\* aborts the process nor yields another value.
RunLevelNetDelta ==
    /\ mainpc \in {"done", "overflow"} => \A i \in Tasks : task[i].pc \in EndedPcs
    /\ mainpc # "overflow"
    /\ mainpc = "done"
         => u64_sub(total_file_size_after, total_file_size_before)
              = [carry |-> 0, offset |-> total_file_size_after - total_file_size_before]

\* The steps of the current iteration so far are the first steps of StepOrder.
InStepOrder(i) ==
    /\ Len(task[i].steps) <= Len(StepOrder)
    /\ \A k \in 1..Len(task[i].steps) : task[i].steps[k] = StepOrder[k]

\* C15: the engine invocations and verifications of an iteration happen in the
\* order recolor/strip, verify, optimizer, verify, deflate-retry, verify,
\* re-packer, verify: at every moment the steps done so far are a prefix of that
\* sequence (so no engine follows another engine without a verification
\* between), and an iteration that reaches its end has done exactly the eight.
StepOrdering ==
    \A i \in Tasks :
        /\ InStepOrder(i)
        /\ (task[i].pc \in {"iter_end", "loop", "cleanup", "done"} /\ task[i].iteration >= 1)
              => task[i].steps = StepOrder

\* A task has finished the eight steps of its second iteration.
SecondIterationInOrder ==
    \E i \in Tasks :
        task[i].pc = "iter_end" /\ task[i].iteration = 2 /\ task[i].steps = StepOrder

\* The verification that follows each engine invocation.
VerifyAfter == [imagemagick |-> "verify1", optipng |-> "verify2",
                advpng |-> "verify3", oxipng |-> "verify4"]

\* C16: an engine invocation, whatever status it returns and in particular a
\* failure, is followed by its verification (the task neither aborts nor skips
\* a step); the verification after a failure decides on the two files as they
\* are, and unless that decision is a panic the task goes on to the next step,
\* so that the remaining engines are still invoked.
EngineFailureTolerated ==
    [][\A i \in Tasks :
          /\ (task[i].pc \in DOMAIN VerifyAfter /\ task'[i] # task[i])
                => task'[i].pc = VerifyAfter[task[i].pc]
          /\ (Verifying(i) /\ task[i].failed)
                => LET v == verify_image(fs, path(i), tmp_path(path(i)))
                   IN  /\ task'[i].outcome = v.outcome
                       /\ fs' = v.fs
                       /\ v.outcome \in {"Improved", "NoGain", "Corrupted"}
                            => task'[i].pc = VerifyNext[task[i].pc]]_vars

\* The first engine of an iteration has failed and the task is at the
\* verification that follows, with a working copy that passes it.
VerifyingAfterEngineFailure ==
    \E i \in Tasks :
        /\ task[i].failed /\ task[i].pc = "verify1"
        /\ verify_image(fs, path(i), tmp_path(path(i))).outcome = "NoGain"

\* Task i moves to position pc in this transition.
Enters(i, pc) == task'[i].pc = pc /\ task[i].pc # pc

\* C17: the recolor/strip engine, the general optimizer and the re-packer are
\* each invoked only right after the working copy was overwritten with the
\* canonical file's current bytes; the deflate-retry engine is invoked right
\* after the second verification, with no copy, on the working copy as the
\* optimizer step and that verification left it, and what it leaves is derived
\* from that working copy.  So the working copies left by the recolor/strip,
\* deflate-retry and re-packer steps are overwritten before the next engine runs.
WorkingCopyRefresh ==
    [][\A i \in Tasks :
          /\ (Enters(i, "imagemagick") \/ Enters(i, "optipng") \/ Enters(i, "oxipng"))
                => /\ task[i].pc \in {"copy1", "copy2", "copy4"}
                   /\ Exists(fs, path(i))
                   /\ fs'[tmp_path(path(i))] = fs[path(i)]
                   /\ fs'[path(i)] = fs[path(i)]
          /\ (task[i].pc = "verify1" /\ task'[i].pc \notin {"verify1", "panicked"})
                => task'[i].pc = "copy2"
          /\ (task[i].pc = "verify3" /\ task'[i].pc \notin {"verify3", "panicked"})
                => task'[i].pc = "copy4"
          /\ (task[i].pc = "verify4" /\ task'[i].pc \notin {"verify4", "panicked"})
                => task'[i].pc = "iter_end"
          /\ Enters(i, "advpng")
                => /\ task[i].pc = "verify2"
                   /\ fs' = verify_image(fs, path(i), tmp_path(path(i))).fs
          /\ (task[i].pc = "advpng" /\ task'[i] # task[i])
                => fs'[tmp_path(path(i))] \in AdvpngOutputs(engine, fs[tmp_path(path(i))])]_vars

\* The deflate-retry engine is about to run on a working copy that is not the
\* canonical file's bytes.
AdvpngOnUnrefreshedCopy ==
    \E i \in Tasks :
        /\ task[i].pc = "advpng"
        /\ NoSharedPaths
        /\ CanOpen(fs, tmp_path(path(i)))
        /\ working(i) # canonical(i)

\* C18: when every engine invocation returns and the workers keep running,
\* every started task ends, converged or aborted, after finitely many
\* iterations: from some moment on no task is inside optimize, so no task loops
\* forever.
TaskTermination == <>[](\A i \in Tasks : task[i].pc \notin RunningPcs)

\* A task has converged after more than two iterations.
ConvergedAfterThirdIteration ==
    \E i \in Tasks : task[i].pc = "done" /\ task[i].iteration >= 3

\* Task i is running and no other task's working copy is its input file.
Undisturbed(i) ==
    /\ task[i].pc \in RunningPcs
    /\ \A j \in Tasks : tmp_path(path(j)) # path(i)

\* C19: in a task whose file no other task writes, the canonical file changes
\* only in a verification step that finds the pixels different and the canonical
\* file smaller than the working copy, and then becomes the working copy; so its
\* size never decreases during the task, and a task that ends without a panic
\* has run exactly one iteration.
CanonicalOnlyEverGrows ==
    [][\A i \in Tasks :
          Undisturbed(i)
            => /\ fs'[path(i)] # fs[path(i)]
                    => /\ Verifying(i) /\ Decodes(i)
                       /\ working(i).pixels # canonical(i).pixels
                       /\ canonical(i).size < working(i).size
                       /\ fs'[path(i)] = fs[tmp_path(path(i))]
               /\ fs'[path(i)].size >= fs[path(i)].size
               /\ task'[i].pc = "done" => task'[i].iteration = 1]_vars

\* An undisturbed task has ended after its canonical file was overwritten with a
\* larger working copy of other pixels.
EndedWithLargerCanonical ==
    \E i \in Tasks :
        /\ task[i].pc = "done"
        /\ \A j \in Tasks : tmp_path(path(j)) # path(i)
        /\ task[i].iteration = 1
        /\ fs[path(i)].pixels # fs0[path(i)].pixels
        /\ fs[path(i)].size > fs0[path(i)].size

\* The iteration cap of the model is never what stops a loop.
CapNotReached ==
    \A i \in Tasks : ~(task[i].pc = "loop" /\ LoopCond(task[i]) /\ task[i].iteration >= MaxIter)

====
